---- MODULE Spec2Model ----
(***************************************************************************)
(* Model of the dev-share backend core: the rich error value               *)
(* (backend/pkg/errors), the reentrant Unit-of-Work coordinator            *)
(* (backend/internal/infra/postgres/unit_of_work.go) and the services that *)
(* compose nested participants on one coordinator.                         *)
(***************************************************************************)
EXTENDS Integers, Sequences, FiniteSets, TLC

VARIABLES
    uow,      \* the coordinator: [tx, depth, failed]  (struct UnitOfWork)
    db,       \* the storage backend: durable rows and the open transaction's pending writes
    phys,     \* number of physical db.Begin / tx.Commit / tx.Rollback calls performed
    log,      \* history of the calls made on the coordinator, oldest first
    pc,       \* position of the running inbound operation
    op,       \* the running inbound operation's request, locals and result
    sched,    \* [self, saved]: the running operation's id and, for every other
              \* operation in flight, its own coordinator, position and locals
    heap      \* the *Error objects and metadata maps allocated so far, and the
              \* last call made on them

vars == <<uow, db, phys, log, pc, op, sched, heap>>

(* ----------------------------- bounds ---------------------------------- *)
\* longest call sequence explored on one coordinator
MaxCalls == 6
\* number of inbound operations in flight at the same time
NProcs == 2
\* number of *Error objects allocated
MaxErrs == 3
\* number of fluent mutator calls made on the allocated objects
MaxMutations == 1

(* --------------------------- error core -------------------------------- *)
SeverityDebug == 0
SeverityInfo == 1
SeverityWarning == 2
SeverityError == 3
SeverityCritical == 4

CodeUnknown == "UNKNOWN"
CodeInternal == "INTERNAL"
CodeInvalidInput == "INVALID_INPUT"
CodeNotFound == "NOT_FOUND"
CodeConflict == "CONFLICT"
CodeUnauthorized == "UNAUTHORIZED"
CodeForbidden == "FORBIDDEN"
CodeDatabase == "DATABASE_ERROR"
CodeConstraint == "CONSTRAINT_VIOLATION"
CodeValidation == "VALIDATION_ERROR"

Codes == {CodeUnknown, CodeInternal, CodeInvalidInput, CodeNotFound, CodeConflict,
          CodeUnauthorized, CodeForbidden, CodeDatabase, CodeConstraint, CodeValidation}

\* the nil *Error / nil error
Nil == [isNil |-> TRUE]

\* an opaque failure of the storage driver (a Go error that is not *Error)
RawErr(text) == [raw |-> text]

IsAppError(e) == "code" \in DOMAIN e

\* Code.HTTPStatus with CodeConstraint grouped with the invalid-input codes
HTTPStatus_ConstraintAs400(c) ==
    CASE c \in {CodeInvalidInput, CodeValidation, CodeConstraint} -> 400
      [] c = CodeUnauthorized -> 401
      [] c = CodeForbidden -> 403
      [] c = CodeNotFound -> 404
      [] c = CodeConflict -> 409
      [] OTHER -> 500

\* Code.HTTPStatus
HTTPStatus(c) ==
    CASE c \in {CodeInvalidInput, CodeValidation} -> 400
      [] c = CodeUnauthorized -> 401
      [] c = CodeForbidden -> 403
      [] c = CodeNotFound -> 404
      [] c \in {CodeConflict, CodeConstraint} -> 409
      [] c \in {CodeInternal, CodeDatabase, CodeUnknown} -> 500
      [] OTHER -> 500

\* Severity.ShouldCaptureStack
ShouldCaptureStack(s) == s = SeverityError \/ s = SeverityCritical

\* captureStack: the program counters of the calling site, never empty
captureStack(site) == <<site>>

\* the empty metadata map, make(map[string]interface{})
EmptyMetadata == [k \in {} |-> ""]

\* copyMetadata
copyMetadata(m) == [k \in DOMAIN m |-> m[k]]

\* New(message), called from site
New(message, site) ==
    [message |-> message, code |-> CodeUnknown, severity |-> SeverityError,
     cause |-> Nil, metadata |-> EmptyMetadata, stack |-> captureStack(site),
     httpStatus |-> 500]

\* Wrap(err, message), called from site
Wrap(err, message, site) ==
    IF err = Nil THEN Nil
    ELSE IF IsAppError(err)
    THEN [message |-> message, code |-> err.code, severity |-> err.severity,
          cause |-> err, metadata |-> copyMetadata(err.metadata),
          stack |-> err.stack, httpStatus |-> err.httpStatus]
    ELSE [message |-> message, code |-> CodeUnknown, severity |-> SeverityError,
          cause |-> err, metadata |-> EmptyMetadata, stack |-> captureStack(site),
          httpStatus |-> 500]

\* WithCode(code, message), the constructor, called from site
WithCode(code, message, site) ==
    LET severity == IF code \in {CodeNotFound, CodeConflict, CodeInvalidInput,
                                 CodeValidation, CodeUnauthorized, CodeForbidden}
                    THEN SeverityWarning ELSE SeverityError
    IN [message |-> message, code |-> code, severity |-> severity,
        cause |-> Nil, metadata |-> EmptyMetadata,
        stack |-> IF ShouldCaptureStack(severity) THEN captureStack(site) ELSE <<>>,
        httpStatus |-> HTTPStatus(code)]

\* (*Error).WithHTTPStatus
Error_WithHTTPStatus(e, status) == [e EXCEPT !.httpStatus = status]

\* (*Error).WithCode
Error_WithCode(e, code) ==
    [e EXCEPT !.code = code,
              !.httpStatus = IF e.httpStatus = 0 \/ e.httpStatus = HTTPStatus(code)
                             THEN HTTPStatus(code) ELSE e.httpStatus]

\* (*Error).WithMetadata
Error_WithMetadata(e, key, value) ==
    [e EXCEPT !.metadata = [k \in (DOMAIN e.metadata) \cup {key} |->
                                IF k = key THEN value ELSE e.metadata[k]]]

\* WithSeverity that only assigns the severity
Error_WithSeverity_NoCapture(e, severity, site) == [e EXCEPT !.severity = severity]

\* (*Error).WithSeverity, called from site
Error_WithSeverity(e, severity, site) ==
    [e EXCEPT !.severity = severity,
              !.stack = IF ShouldCaptureStack(severity) /\ Len(e.stack) = 0
                        THEN captureStack(site) ELSE e.stack]

(* ---------------------- domain error constructors ---------------------- *)
\* domainerrors.NotFound(entityType, id)
NotFound(entityType, id) ==
    Error_WithSeverity(
        Error_WithHTTPStatus(
            Error_WithMetadata(
                Error_WithMetadata(
                    WithCode(CodeNotFound, entityType \o " not found: " \o id, "NotFound"),
                    "entity_type", entityType),
                "entity_id", id),
            404),
        SeverityWarning, "NotFound")

\* the fluent tail shared by the domain constructors:
\* .WithHTTPStatus(status).WithSeverity(SeverityWarning)
Expected(e, status, site) ==
    Error_WithSeverity(Error_WithHTTPStatus(e, status), SeverityWarning, site)

\* domainerrors.NotFoundByField(entityType, field, value)
NotFoundByField(entityType, field, value) ==
    Expected(
        Error_WithMetadata(
            Error_WithMetadata(
                Error_WithMetadata(
                    WithCode(CodeNotFound, entityType \o " not found with " \o field \o ": " \o value,
                             "NotFoundByField"),
                    "entity_type", entityType),
                "field", field),
            "value", value),
        404, "NotFoundByField")

\* domainerrors.Conflict(entityType, field, value)
Conflict(entityType, field, value) ==
    Expected(
        Error_WithMetadata(
            Error_WithMetadata(
                Error_WithMetadata(
                    WithCode(CodeConflict, entityType \o " already exists with " \o field \o ": " \o value,
                             "Conflict"),
                    "entity_type", entityType),
                "field", field),
            "value", value),
        409, "Conflict")

\* domainerrors.InvalidInput(field, reason)
InvalidInput(field, reason) ==
    Expected(
        Error_WithMetadata(
            Error_WithMetadata(
                WithCode(CodeInvalidInput, "invalid input for " \o field \o ": " \o reason,
                         "InvalidInput"),
                "field", field),
            "reason", reason),
        400, "InvalidInput")

\* domainerrors.ValidationError(message, fieldErrors): one metadata entry
\* field_<name> per field error, added after the severity is set
ValidationError(message, fieldErrors) ==
    LET e == Expected(WithCode(CodeValidation, message, "ValidationError"), 400, "ValidationError")
    IN [e EXCEPT !.metadata = [k \in {"field_" \o f : f \in DOMAIN fieldErrors} |->
                                  LET f == CHOOSE g \in DOMAIN fieldErrors : k = "field_" \o g
                                  IN fieldErrors[f]]]

\* domainerrors.Unauthorized(reason)
Unauthorized(reason) ==
    Expected(
        Error_WithMetadata(WithCode(CodeUnauthorized, "unauthorized: " \o reason, "Unauthorized"),
                           "reason", reason),
        401, "Unauthorized")

\* domainerrors.Forbidden(resource, action)
Forbidden(resource, action) ==
    Expected(
        Error_WithMetadata(
            Error_WithMetadata(
                WithCode(CodeForbidden,
                         "forbidden: insufficient permissions to " \o action \o " " \o resource,
                         "Forbidden"),
                "resource", resource),
            "action", action),
        403, "Forbidden")

(* ------------------------ driver error classifier ---------------------- *)
\* SQLite extended result codes
sqliteConstraintUnique == 2067
sqliteConstraintForeignKey == 787
sqliteConstraintNotNull == 1299

\* sql.ErrNoRows
ErrNoRows == RawErr("sql: no rows in result set")

\* a *sqlite.Error with the given extended result code
SqliteError(c) == [raw |-> "sqlite", sqliteCode |-> c]

IsSqliteError(err) == "sqliteCode" \in DOMAIN err

\* wrapSQLiteErr
wrapSQLiteErr(err, operation) ==
    LET base == Error_WithMetadata(
                    Error_WithMetadata(Wrap(err, "sqlite error", "wrapSQLiteErr"),
                                       "operation", operation),
                    "sqlite_code", err.sqliteCode)
    IN CASE err.sqliteCode = sqliteConstraintUnique ->
                Error_WithSeverity(
                    Error_WithHTTPStatus(Error_WithCode(base, CodeConflict), 409),
                    SeverityWarning, "wrapSQLiteErr")
         [] err.sqliteCode = sqliteConstraintForeignKey ->
                Error_WithSeverity(
                    Error_WithHTTPStatus(Error_WithCode(base, CodeInvalidInput), 400),
                    SeverityWarning, "wrapSQLiteErr")
         [] err.sqliteCode = sqliteConstraintNotNull ->
                Error_WithSeverity(
                    Error_WithHTTPStatus(Error_WithCode(base, CodeInvalidInput), 400),
                    SeverityWarning, "wrapSQLiteErr")
         [] OTHER ->
                Error_WithSeverity(
                    Error_WithHTTPStatus(Error_WithCode(base, CodeDatabase), 500),
                    SeverityError, "wrapSQLiteErr")

\* WrapSQLiteError without the sql.ErrNoRows case
WrapSQLiteError_NoSentinel(err, operation) ==
    IF err = Nil THEN Nil
    ELSE IF IsSqliteError(err)
    THEN wrapSQLiteErr(err, operation)
    ELSE Error_WithSeverity(
             Error_WithHTTPStatus(
                 Error_WithMetadata(Wrap(err, "database operation failed", "WrapSQLiteError"),
                                    "operation", operation),
                 500),
             SeverityError, "WrapSQLiteError")

\* WrapSQLiteError
WrapSQLiteError(err, operation) ==
    IF err = Nil THEN Nil
    ELSE IF err = ErrNoRows
    THEN Error_WithSeverity(
             Error_WithMetadata(WithCode(CodeNotFound, "record not found", "WrapSQLiteError"),
                                "operation", operation),
             SeverityWarning, "WrapSQLiteError")
    ELSE IF IsSqliteError(err)
    THEN wrapSQLiteErr(err, operation)
    ELSE Error_WithSeverity(
             Error_WithHTTPStatus(
                 Error_WithMetadata(Wrap(err, "database operation failed", "WrapSQLiteError"),
                                    "operation", operation),
                 500),
             SeverityError, "WrapSQLiteError")

(* ------------------- PostgreSQL driver error classifier ---------------- *)
\* PostgreSQL error codes
CodePostgresUniqueViolation == "23505"
CodePostgresForeignKeyViolation == "23503"
CodePostgresCheckViolation == "23514"
CodePostgresNotNullViolation == "23502"

\* a *pq.Error with the given code and the name of the violated constraint
PqError(c, constraint) ==
    [raw |-> "pq", pgCode |-> c, message |-> "violation", detail |-> "", hint |-> "",
     constraint |-> constraint, table |-> "users", column |-> ""]

IsPqError(err) == "pgCode" \in DOMAIN err

\* the chain without its WithHTTPStatus call
Classified_NoStatus(base, code, status, severity, site) ==
    Error_WithSeverity(Error_WithCode(base, code), severity, site)

\* the chain .WithCode(code).WithHTTPStatus(status).WithSeverity(severity)
Classified(base, code, status, severity, site) ==
    Error_WithSeverity(Error_WithHTTPStatus(Error_WithCode(base, code), status), severity, site)

\* wrapPostgresError
wrapPostgresError(pqErr, operation) ==
    LET w == Wrap(pqErr, "postgres error: " \o pqErr.message, "wrapPostgresError")
        m1 == Error_WithMetadata(w, "operation", operation)
        m2 == Error_WithMetadata(m1, "pg_code", pqErr.pgCode)
        m3 == Error_WithMetadata(m2, "pg_detail", pqErr.detail)
        m4 == Error_WithMetadata(m3, "pg_hint", pqErr.hint)
        m5 == Error_WithMetadata(m4, "pg_constraint", pqErr.constraint)
        m6 == Error_WithMetadata(m5, "pg_table", pqErr.table)
        base == Error_WithMetadata(m6, "pg_column", pqErr.column)
    IN CASE pqErr.pgCode = CodePostgresUniqueViolation ->
                Classified(base, CodeConflict, 409, SeverityWarning, "wrapPostgresError")
         [] pqErr.pgCode = CodePostgresForeignKeyViolation ->
                Classified(base, CodeInvalidInput, 400, SeverityWarning, "wrapPostgresError")
         [] pqErr.pgCode = CodePostgresCheckViolation ->
                Classified(base, CodeValidation, 400, SeverityWarning, "wrapPostgresError")
         [] pqErr.pgCode = CodePostgresNotNullViolation ->
                Classified(base, CodeInvalidInput, 400, SeverityWarning, "wrapPostgresError")
         [] OTHER ->
                Classified(base, CodeDatabase, 500, SeverityError, "wrapPostgresError")

\* WrapDatabaseError
WrapDatabaseError(err, operation) ==
    IF err = Nil THEN Nil
    ELSE IF err = ErrNoRows
    THEN Error_WithSeverity(
             Error_WithMetadata(WithCode(CodeNotFound, "record not found", "WrapDatabaseError"),
                                "operation", operation),
             SeverityWarning, "WrapDatabaseError")
    ELSE IF IsPqError(err)
    THEN wrapPostgresError(err, operation)
    ELSE Error_WithSeverity(
             Error_WithHTTPStatus(
                 Error_WithMetadata(Wrap(err, "database operation failed", "WrapDatabaseError"),
                                    "operation", operation),
                 500),
             SeverityError, "WrapDatabaseError")

(* ------------------------------ validation ----------------------------- *)
\* Service.Validate for a request whose listed fields violate their rules
Validate(badFields) ==
    IF badFields = {} THEN Nil
    ELSE Error_WithMetadata(
             Error_WithSeverity(
                 Error_WithHTTPStatus(WithCode(CodeValidation, "validation failed", "Validate"), 400),
                 SeverityWarning, "Validate"),
             "fields", [f \in badFields |-> f \o " is required"])

(* ----------------------- Unit-of-Work coordinator ---------------------- *)
\* the nil *sql.Tx
NoTx == "nil"
\* a live *sql.Tx handle
Tx == "tx"

\* NewUnitOfWork
NewUnitOfWork == [tx |-> NoTx, depth |-> 0, failed |-> FALSE]

\* Result of one call on the coordinator: the coordinator afterwards, the
\* returned error, and the physical operation the call performed on the
\* storage client ("none", "begin", "commit", "rollback") with its outcome.
Result(u, err, physOp, ok) == [u |-> u, err |-> err, phys |-> physOp, ok |-> ok]

\* Begin with the depth counted before the physical open is known to succeed
Begin_CountFailed(u, ok) ==
    IF u.depth = 0 /\ ~ok
    THEN Result([u EXCEPT !.depth = u.depth + 1],
                Error_WithHTTPStatus(
                    Error_WithCode(Wrap(RawErr("begin"), "failed to begin transaction", "Begin"),
                                   CodeInternal), 500),
                "begin", FALSE)
    ELSE Result([u EXCEPT !.tx = Tx, !.depth = u.depth + 1], Nil,
                IF u.depth = 0 THEN "begin" ELSE "none", TRUE)

\* Begin that opens a physical transaction at every nesting level
Begin_Reopen(u, ok) ==
    IF ~ok
    THEN Result(u,
                Error_WithHTTPStatus(
                    Error_WithCode(Wrap(RawErr("begin"), "failed to begin transaction", "Begin"),
                                   CodeInternal), 500),
                "begin", FALSE)
    ELSE Result([u EXCEPT !.tx = Tx, !.depth = u.depth + 1], Nil, "begin", TRUE)

\* UnitOfWork.Begin; ok is the outcome of u.db.Begin()
Begin(u, ok) ==
    IF u.depth = 0
    THEN IF ~ok
         THEN Result(u,
                     Error_WithHTTPStatus(
                         Error_WithCode(Wrap(RawErr("begin"), "failed to begin transaction", "Begin"),
                                        CodeInternal), 500),
                     "begin", FALSE)
         ELSE Result([u EXCEPT !.tx = Tx, !.depth = u.depth + 1], Nil, "begin", TRUE)
    ELSE Result([u EXCEPT !.depth = u.depth + 1], Nil, "none", TRUE)

\* doRollback that leaves the failed flag set
doRollback_KeepFailed(u, ok) ==
    LET u1 == [u EXCEPT !.tx = NoTx]
    IN IF ~ok
       THEN Result(u1,
                   Error_WithHTTPStatus(
                       Error_WithCode(Wrap(RawErr("rollback"), "failed to rollback transaction", "doRollback"),
                                      CodeInternal), 500),
                   "rollback", FALSE)
       ELSE Result(u1, Nil, "rollback", TRUE)

\* UnitOfWork.doRollback; ok is the outcome of u.tx.Rollback()
doRollback(u, ok) ==
    LET u1 == [u EXCEPT !.tx = NoTx, !.failed = FALSE]
    IN IF ~ok
       THEN Result(u1,
                   Error_WithHTTPStatus(
                       Error_WithCode(Wrap(RawErr("rollback"), "failed to rollback transaction", "doRollback"),
                                      CodeInternal), 500),
                   "rollback", FALSE)
       ELSE Result(u1, Nil, "rollback", TRUE)

\* Commit that clears the handle only when the physical commit succeeds
Commit_KeepTx(u, ok) ==
    IF u.depth = 0
    THEN Result(u,
                Error_WithHTTPStatus(
                    Error_WithCode(New("no active transaction", "Commit"), CodeInternal), 500),
                "none", TRUE)
    ELSE LET u1 == [u EXCEPT !.depth = u.depth - 1]
         IN IF u1.depth > 0
            THEN Result(u1, Nil, "none", TRUE)
            ELSE IF u1.failed
            THEN doRollback(u1, ok)
            ELSE IF ~ok
                 THEN Result(u1,
                             Error_WithHTTPStatus(
                                 Error_WithCode(Wrap(RawErr("commit"), "failed to commit transaction", "Commit"),
                                                CodeInternal), 500),
                             "commit", FALSE)
                 ELSE Result([u1 EXCEPT !.tx = NoTx], Nil, "commit", TRUE)

\* Commit that already treats the last nested level as the outermost
Commit_OffByOne(u, ok) ==
    IF u.depth = 0
    THEN Result(u,
                Error_WithHTTPStatus(
                    Error_WithCode(New("no active transaction", "Commit"), CodeInternal), 500),
                "none", TRUE)
    ELSE LET u1 == [u EXCEPT !.depth = u.depth - 1]
         IN IF u1.depth > 1
            THEN Result(u1, Nil, "none", TRUE)
            ELSE IF u1.tx = NoTx
            THEN Result(u1, Nil, "none", TRUE)
            ELSE LET u2 == [u1 EXCEPT !.tx = NoTx]
                 IN IF ~ok
                    THEN Result(u2,
                                Error_WithHTTPStatus(
                                    Error_WithCode(Wrap(RawErr("commit"), "failed to commit transaction", "Commit"),
                                                   CodeInternal), 500),
                                "commit", FALSE)
                    ELSE Result(u2, Nil, "commit", TRUE)

\* Commit without nesting: every Commit that finds a handle commits it physically
Commit_Flat(u, ok) ==
    IF u.tx = NoTx
    THEN Result(u,
                Error_WithHTTPStatus(
                    Error_WithCode(New("no active transaction", "Commit"), CodeInternal), 500),
                "none", TRUE)
    ELSE LET u2 == [u EXCEPT !.tx = NoTx, !.depth = u.depth - 1]
         IN IF ~ok
            THEN Result(u2,
                        Error_WithHTTPStatus(
                            Error_WithCode(Wrap(RawErr("commit"), "failed to commit transaction", "Commit"),
                                           CodeInternal), 500),
                        "commit", FALSE)
            ELSE Result(u2, Nil, "commit", TRUE)

\* Commit whose depth-0 error keeps the code of New
Commit_Unclassified(u, ok) ==
    IF u.depth = 0
    THEN Result(u, New("no active transaction", "Commit"), "none", TRUE)
    ELSE LET u1 == [u EXCEPT !.depth = u.depth - 1]
         IN IF u1.depth > 0
            THEN Result(u1, Nil, "none", TRUE)
            ELSE IF u1.failed
            THEN doRollback(u1, ok)
            ELSE LET u2 == [u1 EXCEPT !.tx = NoTx]
                 IN IF ~ok
                    THEN Result(u2,
                                Error_WithHTTPStatus(
                                    Error_WithCode(Wrap(RawErr("commit"), "failed to commit transaction", "Commit"),
                                                   CodeInternal), 500),
                                "commit", FALSE)
                    ELSE Result(u2, Nil, "commit", TRUE)

\* UnitOfWork.Commit; ok is the outcome of u.tx.Commit() (or of u.tx.Rollback()
\* when the failed branch is taken)
Commit(u, ok) ==
    IF u.depth = 0
    THEN Result(u,
                Error_WithHTTPStatus(
                    Error_WithCode(New("no active transaction", "Commit"), CodeInternal), 500),
                "none", TRUE)
    ELSE LET u1 == [u EXCEPT !.depth = u.depth - 1]
         IN IF u1.depth > 0
            THEN Result(u1, Nil, "none", TRUE)
            ELSE IF u1.failed
            THEN doRollback(u1, ok)
            ELSE LET u2 == [u1 EXCEPT !.tx = NoTx]
                 IN IF ~ok
                    THEN Result(u2,
                                Error_WithHTTPStatus(
                                    Error_WithCode(Wrap(RawErr("commit"), "failed to commit transaction", "Commit"),
                                                   CodeInternal), 500),
                                "commit", FALSE)
                    ELSE Result(u2, Nil, "commit", TRUE)

\* Rollback that unwinds one nesting level and rolls back only at the outermost
Rollback_Nested(u, ok) ==
    IF u.depth = 0
    THEN Result(u, Nil, "none", TRUE)
    ELSE IF u.depth > 1
    THEN Result([u EXCEPT !.failed = TRUE, !.depth = u.depth - 1], Nil, "none", TRUE)
    ELSE doRollback([u EXCEPT !.failed = TRUE, !.depth = 0], ok)

\* Rollback that does not reset the nesting depth
Rollback_KeepDepth(u, ok) ==
    IF u.depth = 0
    THEN Result(u, Nil, "none", TRUE)
    ELSE IF u.tx = NoTx
    THEN Result([u EXCEPT !.failed = FALSE], Nil, "none", TRUE)
    ELSE doRollback([u EXCEPT !.failed = TRUE], ok)

\* Rollback that rejects a call without an active transaction
Rollback_Strict(u, ok) ==
    IF u.depth = 0
    THEN Result(u,
                Error_WithHTTPStatus(
                    Error_WithCode(New("no transaction to rollback", "Rollback"), CodeInternal), 500),
                "none", TRUE)
    ELSE doRollback([u EXCEPT !.failed = TRUE, !.depth = 0], ok)

\* Rollback that marks the coordinator failed and leaves the physical rollback
\* to a later call
Rollback_MarkOnly(u, ok) ==
    IF u.depth = 0
    THEN Result(u, Nil, "none", TRUE)
    ELSE Result([u EXCEPT !.failed = TRUE, !.depth = u.depth - 1], Nil, "none", TRUE)

\* UnitOfWork.Rollback; ok is the outcome of u.tx.Rollback()
Rollback(u, ok) ==
    IF u.depth = 0
    THEN Result(u, Nil, "none", TRUE)
    ELSE doRollback([u EXCEPT !.failed = TRUE, !.depth = 0], ok)

\* a repository bound to the pool instead of the coordinator
Querier_Pool(u) == "db"

\* UnitOfWork.Querier: the open transaction when there is one, else the pool
Querier(u) == IF u.tx # NoTx THEN "tx" ELSE "db"

(* --------------------------- storage client ---------------------------- *)
\* Effect of a physical operation on the storage backend.  A transaction
\* that is committed successfully makes its pending writes durable; a rollback,
\* and a commit that fails, discard them (database/sql ends the transaction
\* in both cases).
SameRow(a, b) == a.table = b.table /\ a.id = b.id

\* the rows with the pending versions written over them
Merge(rows, pending) ==
    {r \in rows : ~\E q \in pending : SameRow(q, r)} \cup pending

ApplyPhys(d, r) ==
    CASE r.phys = "commit" /\ r.ok -> [rows |-> Merge(d.rows, d.pending), pending |-> {}]
      [] r.phys = "commit" /\ ~r.ok -> [d EXCEPT !.pending = {}]
      [] r.phys = "rollback" -> [d EXCEPT !.pending = {}]
      [] OTHER -> d

CountPhys(p, r) ==
    CASE r.phys = "begin" /\ r.ok -> [p EXCEPT !.begin = @ + 1]
      [] r.phys = "commit" -> [p EXCEPT !.commit = @ + 1]
      [] r.phys = "rollback" -> [p EXCEPT !.rollback = @ + 1]
      [] OTHER -> p

\* A statement executed through Querier(u): inside the open transaction the
\* row is pending, on the pool it is committed at once (autocommit).
ExecWrite(d, u, row) ==
    IF Querier(u) = "tx" THEN [d EXCEPT !.pending = Merge(@, {row})]
    ELSE [d EXCEPT !.rows = Merge(@, {row})]

\* the rows a statement executed through Querier(u) can see
Visible(d, u) == IF Querier(u) = "tx" THEN Merge(d.rows, d.pending) ELSE d.rows

\* a row of the given table; admin is 0 while no admin is linked
Row(table, id, admin) == [table |-> table, id |-> id, admin |-> admin]

\* One entry of the call history: the call, the coordinator before and after
\* it, the error it returned and the physical operation it performed.
Entry(name, u, r) ==
    [op |-> name, pre |-> u, post |-> r.u, err |-> r.err, phys |-> r.phys, ok |-> r.ok]

\* One call on the coordinator with its effect on the storage backend.
Call(name, r) ==
    /\ uow' = r.u
    /\ db' = ApplyPhys(db, r)
    /\ phys' = CountPhys(phys, r)
    /\ log' = Append(log, Entry(name, uow, r))

\* One successful write statement of a repository bound to the coordinator.
Exec(row) ==
    /\ db' = ExecWrite(db, uow, row)
    /\ log' = Append(log, Entry("Exec", uow, Result(uow, Nil, "none", TRUE)))
    /\ UNCHANGED <<uow, phys>>

(* ------------------ *Error objects and their metadata maps ------------- *)
\* An *Error is an object of errs; its metadata field is a reference to one
\* of maps (a Go map is shared by every value that holds it). last records
\* the last call: its name, the object it returned, its argument, the value
\* of the receiver or cause before the call, and the maps before the call.
NoCall == [name |-> "none"]
EmptyHeap == [errs |-> <<>>, maps |-> <<>>, mutations |-> 0, last |-> NoCall]

\* the value of object i, its metadata read through the reference
Deref(h, i) == [h.errs[i] EXCEPT !.metadata = h.maps[h.errs[i].metadata]]

\* &Error{..., metadata: make(map[string]interface{})}: a new object with a
\* map of its own
Alloc(h, v) ==
    [h EXCEPT !.errs = Append(@, [v EXCEPT !.metadata = Len(h.maps) + 1]),
              !.maps = Append(@, v.metadata)]

\* Wrap whose result keeps the cause's map instead of a copy
WrapAlloc_Shared(h, i, v) ==
    [h EXCEPT !.errs = Append(@, [v EXCEPT !.metadata = h.errs[i].metadata])]

\* Wrap of object i: &Error{..., metadata: copyMetadata(appErr.metadata)},
\* the copy being a map of its own
WrapAlloc(h, i, v) == Alloc(h, v)

\* a fluent mutator assigns the fields of its receiver i in place and writes
\* through its metadata reference
Mutate(h, i, v) ==
    [h EXCEPT !.errs[i] = [v EXCEPT !.metadata = h.errs[i].metadata],
              !.maps[h.errs[i].metadata] = v.metadata,
              !.mutations = @ + 1]

\* the heap after a call, with the call recorded
Called(h, after, name, target, arg, before) ==
    [after EXCEPT !.last = [name |-> name, target |-> target, arg |-> arg,
                            before |-> before, maps |-> h.maps]]

(* ---------------- the connection pool and the operations in flight ------ *)
\* db.SetMaxOpenConns(1)
MaxOpenConns == 1

\* a single operation in flight
Solo == [self |-> 1, saved |-> <<>>]

\* the coordinators of the other operations in flight that hold a transaction,
\* and with it a connection of the pool, until its commit or rollback
Holders == {q \in DOMAIN sched.saved : sched.saved[q].uow.tx # NoTx}

\* a pool without a limit on its open connections
PoolFree_Unlimited == TRUE

\* the pool can hand out a connection
PoolFree == Cardinality(Holders) < MaxOpenConns

\* the steps that run a statement or open a transaction; outside a
\* transaction they take a connection from the pool
ConnSteps ==
    {"admin_count", "admin_begin", "admin_create_workspace", "user_get_by_email",
     "user_begin", "user_create", "admin_update_admin",
     "ws_begin", "ws_create", "ws_get", "ws_update", "ws_delete"}

\* the steps that call uow.Begin
BeginSteps == {"admin_begin", "user_begin", "ws_begin"}

\* the step the running operation is about to take needs a connection of the
\* pool: a Begin at depth 0 (db.Begin), or a statement for which Querier
\* returns the pool
NeedsPool == IF pc \in BeginSteps THEN uow.depth = 0 ELSE Querier(uow) = "db"

\* the running operation waits for a connection of the pool: every connection
\* is held by a transaction, of another operation or of its own coordinator
Waiting == pc \in ConnSteps /\ NeedsPool /\ (~PoolFree \/ uow.tx # NoTx)

\* A step of the running operation leaves the other operations alone; a step
\* that waits for a connection ends only with an error (its context is done).
Turn ==
    /\ sched' = sched
    /\ heap' = heap
    /\ Waiting => op'.err # Nil

(* ------------- the coordinator under arbitrary call sequences ---------- *)
IdleOp == [name |-> "none"]

Init ==
    /\ uow = NewUnitOfWork
    /\ db = [rows |-> {}, pending |-> {}]
    /\ phys = [begin |-> 0, commit |-> 0, rollback |-> 0]
    /\ log = <<>>
    /\ pc = "idle"
    /\ op = IdleOp
    /\ sched = Solo
    /\ heap = EmptyHeap

CallBegin ==
    /\ Len(log) < MaxCalls
    /\ \E ok \in BOOLEAN :
          /\ (uow.depth > 0 => ok)
          /\ Call("Begin", Begin(uow, ok))
    /\ UNCHANGED <<pc, op>>
    /\ Turn

CallCommit ==
    /\ Len(log) < MaxCalls
    /\ \E ok \in BOOLEAN :
          /\ (uow.depth # 1 => ok)
          /\ Call("Commit", Commit(uow, ok))
    /\ UNCHANGED <<pc, op>>
    /\ Turn

CallRollback ==
    /\ Len(log) < MaxCalls
    /\ \E ok \in BOOLEAN :
          /\ (uow.depth = 0 => ok)
          /\ Call("Rollback", Rollback(uow, ok))
    /\ UNCHANGED <<pc, op>>
    /\ Turn

\* a repository statement issued through the coordinator's Querier
CallExec ==
    /\ Len(log) < MaxCalls
    /\ Exec(Row("workspaces", Len(log) + 1, 0))
    /\ UNCHANGED <<pc, op>>
    /\ Turn

Next == CallBegin \/ CallCommit \/ CallRollback \/ CallExec

Spec == Init /\ [][Next]_vars

(* --------------- AdminService.InitializeSystem on one coordinator ------ *)
\* The failures a statement can meet in the storage driver: constraint
\* violations raised by rows of other writers, another driver error, and an
\* error that is not a driver error (a cancelled context).
DriverFailures ==
    {SqliteError(sqliteConstraintUnique), SqliteError(sqliteConstraintForeignKey),
     SqliteError(1), RawErr("context canceled")}

\* the validated fields of contracts.AdminInit (json names)
AdminInitFields ==
    {"admin_name", "admin_email", "admin_password", "workspace_name", "workspace_description"}

\* the fields of contracts.CreateLocalUser filled in by InitializeSystem
CreateLocalUserFields == {"name", "email", "password", "workspace_id"}

\* a user created before this operation started
ExistingUser == Row("users", 0, 0)

Users(rows) == {r \in rows : r.table = "users"}
Workspaces(rows) == {r \in rows : r.table = "workspaces"}

InitAdmin ==
    /\ uow = NewUnitOfWork
    /\ \E existing \in SUBSET {ExistingUser} : db = [rows |-> existing, pending |-> {}]
    /\ phys = [begin |-> 0, commit |-> 0, rollback |-> 0]
    /\ log = <<>>
    /\ pc = "admin_validate"
    /\ op = [name |-> "InitializeSystem", err |-> Nil, at |-> "none",
             workspace |-> 0, user |-> 0]
    /\ sched = Solo
    /\ heap = EmptyHeap

\* where the deferred uow.Rollback() of an inbound operation runs: registered
\* by InitializeSystem, by the workspace services, and by the user handler
DeferOf(name) ==
    CASE name = "InitializeSystem" -> "admin_defer"
      [] name = "CreateUser" -> "handler_defer"
      [] OTHER -> "ws_defer"

\* return err; the deferred uow.Rollback() runs once it has been registered
Return(err, deferred) ==
    /\ op' = [op EXCEPT !.err = err, !.at = pc]
    /\ pc' = IF deferred THEN DeferOf(op.name) ELSE "returned"

\* s.validator.Validate(request)
AdminValidate ==
    /\ pc = "admin_validate"
    /\ \E bad \in SUBSET AdminInitFields :
          IF Validate(bad) # Nil
          THEN Return(Validate(bad), FALSE)
          ELSE pc' = "admin_count" /\ UNCHANGED op
    /\ UNCHANGED <<uow, db, phys, log>>
    /\ Turn

\* InitializeSystem without the pre-flight check
AdminCount_NoPreflight ==
    /\ pc = "admin_count"
    /\ \/ \E f \in DriverFailures : Return(WrapSQLiteError(f, "count_users"), FALSE)
       \/ pc' = "admin_begin" /\ UNCHANGED op
    /\ UNCHANGED <<uow, db, phys, log>>
    /\ Turn

\* s.userRepository.Count(ctx) and the pre-flight check
AdminCount ==
    /\ pc = "admin_count"
    /\ \/ \E f \in DriverFailures : Return(WrapSQLiteError(f, "count_users"), FALSE)
       \/ IF Cardinality(Users(Visible(db, uow))) > 0
          THEN Return(Error_WithHTTPStatus(
                          WithCode(CodeConflict, "System already initialized", "InitializeSystem"),
                          409), FALSE)
          ELSE pc' = "admin_begin" /\ UNCHANGED op
    /\ UNCHANGED <<uow, db, phys, log>>
    /\ Turn

\* uow.Begin(); defer uow.Rollback()
AdminBegin ==
    /\ pc = "admin_begin"
    /\ \E ok \in BOOLEAN :
          LET r == Begin(uow, ok)
          IN /\ Call("Begin", r)
             /\ IF r.err # Nil
                THEN Return(r.err, FALSE)
                ELSE pc' = "admin_create_workspace" /\ UNCHANGED op
    /\ Turn

\* s.workspaceRepository.Create(ctx, workspace)
AdminCreateWorkspace ==
    /\ pc = "admin_create_workspace"
    /\ \/ /\ \E f \in DriverFailures : Return(WrapSQLiteError(f, "create_workspace"), TRUE)
          /\ UNCHANGED <<uow, db, phys, log>>
       \/ /\ Exec(Row("workspaces", Len(log) + 1, 0))
          /\ op' = [op EXCEPT !.workspace = Len(log) + 1]
          /\ pc' = "user_validate"
    /\ Turn

\* CreateLocalUser: s.validator.Validate(request)
UserValidate ==
    /\ pc = "user_validate"
    /\ \E bad \in SUBSET CreateLocalUserFields :
          IF Validate(bad) # Nil
          THEN Return(Validate(bad), TRUE)
          ELSE pc' = "user_get_by_email" /\ UNCHANGED op
    /\ UNCHANGED <<uow, db, phys, log>>
    /\ Turn

\* CreateLocalUser: s.userRepository.GetByEmail; only a not-found error or
\* no error lets the call continue
UserGetByEmail ==
    /\ pc = "user_get_by_email"
    /\ \E err \in {Nil, NotFound("User", "email")}
                   \cup {WrapSQLiteError(f, "get_user_by_email") : f \in DriverFailures} :
          IF err # Nil /\ err.httpStatus # WithCode(CodeNotFound, "entity not found", "init").httpStatus
          THEN Return(err, TRUE)
          ELSE pc' = "user_factory" /\ UNCHANGED op
    /\ UNCHANGED <<uow, db, phys, log>>
    /\ Turn

\* CreateLocalUser: userFactory.Create
UserFactoryCreate ==
    /\ pc = "user_factory"
    /\ \/ Return(WithCode(CodeInvalidInput, "invalid user", "UserFactory.Create"), TRUE)
       \/ pc' = "user_begin" /\ UNCHANGED op
    /\ UNCHANGED <<uow, db, phys, log>>
    /\ Turn

\* CreateLocalUser: uow.Begin()
UserBegin ==
    /\ pc = "user_begin"
    /\ \E ok \in BOOLEAN :
          LET r == Begin(uow, ok)
          IN /\ (r.phys = "none" => ok)
             /\ Call("Begin", r)
             /\ IF r.err # Nil
                THEN Return(r.err, TRUE)
                ELSE pc' = "user_create" /\ UNCHANGED op
    /\ Turn

\* CreateLocalUser: s.userRepository.Create(ctx, user); on failure the call
\* returns without Commit or Rollback
UserCreate ==
    /\ pc = "user_create"
    /\ \/ /\ \E f \in DriverFailures : Return(WrapSQLiteError(f, "create_user"), TRUE)
          /\ UNCHANGED <<uow, db, phys, log>>
       \/ /\ Exec(Row("users", Len(log) + 1, 0))
          /\ op' = [op EXCEPT !.user = Len(log) + 1]
          /\ pc' = "user_commit"
    /\ Turn

\* CreateLocalUser: uow.Commit()
UserCommit ==
    /\ pc = "user_commit"
    /\ \E ok \in BOOLEAN :
          LET r == Commit(uow, ok)
          IN /\ (r.phys = "none" => ok)
             /\ Call("Commit", r)
             /\ IF r.err # Nil
                THEN Return(r.err, TRUE)
                ELSE /\ pc' = IF op.name = "CreateUser" THEN "handler_token"
                                                         ELSE "admin_update_admin"
                     /\ UNCHANGED op
    /\ Turn

\* s.workspaceRepository.UpdateAdminID(ctx, workspace.ID, adminUser.ID)
AdminUpdateAdminID ==
    /\ pc = "admin_update_admin"
    /\ \/ /\ \E f \in DriverFailures : Return(WrapSQLiteError(f, "update_workspace_admin"), TRUE)
          /\ UNCHANGED <<uow, db, phys, log>>
       \/ IF \E w \in Workspaces(Visible(db, uow)) : w.id = op.workspace
          THEN /\ Exec(Row("workspaces", op.workspace, op.user))
               /\ pc' = "admin_commit"
               /\ UNCHANGED op
          ELSE /\ Return(NotFound("Workspace", "id"), TRUE)
               /\ UNCHANGED <<uow, db, phys, log>>
    /\ Turn

\* uow.Commit() of the outer participant
AdminCommit ==
    /\ pc = "admin_commit"
    /\ \E ok \in BOOLEAN :
          LET r == Commit(uow, ok)
          IN /\ (r.phys = "none" => ok)
             /\ Call("Commit", r)
             /\ IF r.err # Nil
                THEN Return(r.err, TRUE)
                ELSE /\ pc' = "admin_defer"
                     /\ op' = [op EXCEPT !.at = "done"]
    /\ Turn

\* the deferred uow.Rollback(); its result is discarded
AdminDeferredRollback ==
    /\ pc = "admin_defer"
    /\ \E ok \in BOOLEAN :
          LET r == Rollback(uow, ok)
          IN /\ (r.phys = "none" => ok)
             /\ Call("Rollback", r)
    /\ pc' = "returned"
    /\ UNCHANGED op
    /\ Turn

NextAdmin ==
    \/ AdminValidate \/ AdminCount \/ AdminBegin \/ AdminCreateWorkspace
    \/ UserValidate \/ UserGetByEmail \/ UserFactoryCreate \/ UserBegin
    \/ UserCreate \/ UserCommit \/ AdminUpdateAdminID \/ AdminCommit
    \/ AdminDeferredRollback

SpecAdmin == InitAdmin /\ [][NextAdmin]_vars

(* ------ every inbound operation that uses a coordinator, one at a time -- *)
\* a workspace created before this operation started
ExistingWorkspace == Row("workspaces", 0, 0)

\* The deleted_at column of workspaces, kept as the relation of the ids whose
\* deleted_at is set: Delete writes it, the reads filter on it.
DeletedAt(id) == Row("workspaces.deleted_at", id, 0)

\* WHERE id = ? AND deleted_at IS NULL
LiveWorkspace(rows, id) ==
    /\ \E w \in Workspaces(rows) : w.id = id
    /\ DeletedAt(id) \notin rows

\* the validated fields of the workspace contracts (json names)
WorkspaceFields(name) ==
    CASE name = "CreateWorkspace" -> {"name", "description", "admin_id"}
      [] name = "UpdateWorkspace" -> {"id", "name", "description"}
      [] OTHER -> {"id"}

OpNames ==
    {"InitializeSystem", "CreateUser", "CreateWorkspace", "UpdateWorkspace", "DeleteWorkspace"}

\* the first step of each inbound operation once its coordinator exists
EntryOf(name) ==
    CASE name = "InitializeSystem" -> "admin_validate"
      [] name = "CreateUser" -> "user_validate"
      [] OTHER -> "ws_validate"

\* the request and locals of a fresh inbound operation; the workspace
\* operations address the workspace with id 0
NewOp(name) ==
    [name |-> name, err |-> Nil, at |-> "none", workspace |-> 0, user |-> 0]

InitOps ==
    /\ uow = NewUnitOfWork
    /\ \E existing \in SUBSET {ExistingUser, ExistingWorkspace, DeletedAt(0)} :
          db = [rows |-> existing, pending |-> {}]
    /\ phys = [begin |-> 0, commit |-> 0, rollback |-> 0]
    /\ log = <<>>
    /\ \E name \in OpNames : pc = EntryOf(name) /\ op = NewOp(name)
    /\ sched = Solo
    /\ heap = EmptyHeap

\* WorkspaceService: s.validator.Validate(request)
WsValidate ==
    /\ pc = "ws_validate"
    /\ \E bad \in SUBSET WorkspaceFields(op.name) :
          IF Validate(bad) # Nil
          THEN Return(Validate(bad), FALSE)
          ELSE pc' = "ws_begin" /\ UNCHANGED op
    /\ UNCHANGED <<uow, db, phys, log>>
    /\ Turn

\* WorkspaceService: uow.Begin(); defer uow.Rollback()
WsBegin ==
    /\ pc = "ws_begin"
    /\ \E ok \in BOOLEAN :
          LET r == Begin(uow, ok)
          IN /\ Call("Begin", r)
             /\ IF r.err # Nil
                THEN Return(r.err, FALSE)
                ELSE /\ pc' = CASE op.name = "CreateWorkspace" -> "ws_create"
                                [] op.name = "UpdateWorkspace" -> "ws_get"
                                [] OTHER -> "ws_delete"
                     /\ UNCHANGED op
    /\ Turn

\* CreateWorkspace: s.workspaceRepository.Create(ctx, workspace)
WsCreate ==
    /\ pc = "ws_create"
    /\ \/ /\ \E f \in DriverFailures : Return(WrapSQLiteError(f, "create_workspace"), TRUE)
          /\ UNCHANGED <<uow, db, phys, log>>
       \/ /\ Exec(Row("workspaces", Len(log) + 1, 0))
          /\ op' = [op EXCEPT !.workspace = Len(log) + 1]
          /\ pc' = "ws_commit"
    /\ Turn

\* UpdateWorkspace: s.workspaceRepository.GetByID(ctx, request.ID)
WsGetByID ==
    /\ pc = "ws_get"
    /\ \/ \E f \in DriverFailures : Return(WrapSQLiteError(f, "get_workspace"), TRUE)
       \/ IF LiveWorkspace(Visible(db, uow), op.workspace)
          THEN pc' = "ws_update" /\ UNCHANGED op
          ELSE Return(NotFound("Workspace", "id"), TRUE)
    /\ UNCHANGED <<uow, db, phys, log>>
    /\ Turn

\* UpdateWorkspace: s.workspaceRepository.Update(ctx, workspace)
WsUpdate ==
    /\ pc = "ws_update"
    /\ \/ /\ \E f \in DriverFailures : Return(WrapSQLiteError(f, "update_workspace"), TRUE)
          /\ UNCHANGED <<uow, db, phys, log>>
       \/ IF \E w \in Workspaces(Visible(db, uow)) : w.id = op.workspace
          THEN /\ Exec(Row("workspaces", op.workspace, 0))
               /\ pc' = "ws_commit"
               /\ UNCHANGED op
          ELSE /\ Return(NotFound("Workspace", "id"), TRUE)
               /\ UNCHANGED <<uow, db, phys, log>>
    /\ Turn

\* DeleteWorkspace: s.workspaceRepository.Delete(ctx, request.ID)
WsDelete ==
    /\ pc = "ws_delete"
    /\ \/ /\ \E f \in DriverFailures : Return(WrapSQLiteError(f, "delete_workspace"), TRUE)
          /\ UNCHANGED <<uow, db, phys, log>>
       \/ IF LiveWorkspace(Visible(db, uow), op.workspace)
          THEN /\ Exec(DeletedAt(op.workspace))
               /\ pc' = "ws_commit"
               /\ UNCHANGED op
          ELSE /\ Return(NotFound("Workspace", "id"), TRUE)
               /\ UNCHANGED <<uow, db, phys, log>>
    /\ Turn

\* WorkspaceService: return ..., uow.Commit()
WsCommit ==
    /\ pc = "ws_commit"
    /\ \E ok \in BOOLEAN :
          LET r == Commit(uow, ok)
          IN /\ (r.phys = "none" => ok)
             /\ Call("Commit", r)
             /\ IF r.err # Nil
                THEN Return(r.err, TRUE)
                ELSE /\ pc' = "ws_defer"
                     /\ op' = [op EXCEPT !.at = "done"]
    /\ Turn

\* WorkspaceService: the deferred uow.Rollback(); its result is discarded
WsDeferredRollback ==
    /\ pc = "ws_defer"
    /\ \E ok \in BOOLEAN :
          LET r == Rollback(uow, ok)
          IN /\ (r.phys = "none" => ok)
             /\ Call("Rollback", r)
    /\ pc' = "returned"
    /\ UNCHANGED op
    /\ Turn

\* UserHandler.CreateUser: h.jwtService.GenerateToken after the service returned
HandlerGenerateToken ==
    /\ pc = "handler_token"
    /\ \/ Return(RawErr("token signing failed"), TRUE)
       \/ pc' = "handler_defer" /\ op' = [op EXCEPT !.at = "done"]
    /\ UNCHANGED <<uow, db, phys, log>>
    /\ Turn

\* UserHandler.CreateUser without its deferred uow.Rollback()
HandlerDeferredRollback_Missing ==
    /\ pc = "handler_defer"
    /\ pc' = "returned"
    /\ UNCHANGED <<uow, db, phys, log, op>>
    /\ Turn

\* UserHandler.CreateUser: the deferred uow.Rollback(); its result is discarded
HandlerDeferredRollback ==
    /\ pc = "handler_defer"
    /\ \E ok \in BOOLEAN :
          LET r == Rollback(uow, ok)
          IN /\ (r.phys = "none" => ok)
             /\ Call("Rollback", r)
    /\ pc' = "returned"
    /\ UNCHANGED op
    /\ Turn

NextOps ==
    \/ AdminValidate \/ AdminCount \/ AdminBegin \/ AdminCreateWorkspace
    \/ UserValidate \/ UserGetByEmail \/ UserFactoryCreate \/ UserBegin
    \/ UserCreate \/ UserCommit \/ AdminUpdateAdminID \/ AdminCommit
    \/ AdminDeferredRollback
    \/ WsValidate \/ WsBegin \/ WsCreate \/ WsGetByID \/ WsUpdate \/ WsDelete
    \/ WsCommit \/ WsDeferredRollback
    \/ HandlerGenerateToken \/ HandlerDeferredRollback

SpecOps == InitOps /\ [][NextOps]_vars

(* ------ inbound operations in flight together on the single-connection pool *)
\* the coordinator, position and locals of an operation that is not running
Saved(u, at, o) == [uow |-> u, pc |-> at, op |-> o]

\* the operations in a fixed order: the operations waiting to start are
\* interchangeable, so they are listed in this order
OpOrder ==
    <<"InitializeSystem", "CreateUser", "CreateWorkspace", "UpdateWorkspace", "DeleteWorkspace">>

InitPool ==
    /\ uow = NewUnitOfWork
    /\ \E existing \in SUBSET {ExistingUser, ExistingWorkspace} :
          db = [rows |-> existing, pending |-> {}]
    /\ phys = [begin |-> 0, commit |-> 0, rollback |-> 0]
    /\ log = <<>>
    /\ \E name \in OpNames : pc = EntryOf(name) /\ op = NewOp(name)
    /\ \E n \in [2..NProcs -> 1..Len(OpOrder)] :
          /\ \A a, b \in 2..NProcs : a < b => n[a] <= n[b]
          /\ sched = [self |-> 1,
                      saved |-> [q \in 2..NProcs |->
                                    Saved(NewUnitOfWork, EntryOf(OpOrder[n[q]]),
                                          NewOp(OpOrder[n[q]]))]]
    /\ heap = EmptyHeap

\* the operations that stay in flight when the running one is set aside: an
\* operation that has returned is over and its coordinator is discarded
InFlight == IF pc = "returned" THEN {} ELSE {sched.self}

\* the steps that end a transaction when the coordinator holds one
EndSteps ==
    {"user_commit", "admin_commit", "ws_commit", "admin_defer", "ws_defer", "handler_defer"}

\* the running operation is about to touch the pool or the database; its
\* other steps work on its own request and coordinator only and commute with
\* the steps of every other operation
AtShared == pc \in ConnSteps \/ (uow.tx # NoTx /\ pc \in EndSteps)

\* the host runs the handlers of concurrent requests interleaved: another
\* operation in flight takes its next step
Switch ==
    /\ pc = "returned" \/ AtShared
    /\ \E q \in DOMAIN sched.saved :
          /\ uow' = sched.saved[q].uow
          /\ pc' = sched.saved[q].pc
          /\ op' = sched.saved[q].op
          /\ sched' = [self |-> q,
                       saved |-> [p \in (DOMAIN sched.saved \ {q}) \cup InFlight |->
                                     IF p = sched.self THEN Saved(uow, pc, op)
                                     ELSE sched.saved[p]]]
    /\ UNCHANGED <<db, phys, log, heap>>

NextPool == Switch \/ NextOps

SpecPool == InitPool /\ [][NextPool]_vars

\* The host runs every handler on its own goroutine and the Go scheduler runs
\* every runnable goroutine: an operation that is not waiting for a connection
\* eventually takes its next step, and every operation in flight eventually
\* gets its turn. Nothing forces a waiting operation's context to end.
SpecPoolFair ==
    /\ InitPool /\ [][NextPool]_vars
    /\ SF_vars(NextOps /\ ~Waiting)
    /\ \A q \in 1..NProcs : WF_vars(Switch /\ sched'.self = q)

(* ------ InitializeSystem calls in flight together on an empty database -- *)
\* every request in flight is an InitializeSystem call, each with its own
\* coordinator, and no user or workspace is stored yet
InitRace ==
    /\ uow = NewUnitOfWork
    /\ db = [rows |-> {}, pending |-> {}]
    /\ phys = [begin |-> 0, commit |-> 0, rollback |-> 0]
    /\ log = <<>>
    /\ pc = EntryOf("InitializeSystem")
    /\ op = NewOp("InitializeSystem")
    /\ sched = [self |-> 1,
                saved |-> [q \in 2..NProcs |->
                              Saved(NewUnitOfWork, EntryOf("InitializeSystem"),
                                    NewOp("InitializeSystem"))]]
    /\ heap = EmptyHeap

SpecRace == InitRace /\ [][Switch \/ NextAdmin]_vars

(* ------------- building and mutating ErrorValues, call by call --------- *)
\* operation labels passed to the classifiers
Operations == {"create_user", "get_workspace"}

\* raw failures handed to WrapSQLiteError: the no-rows sentinel, the three
\* constraint codes it names, a CHECK violation (extended code 275, raised by
\* check_auth_method of the users table), another driver error, and an error
\* that is not a driver error
SqliteInputs ==
    {ErrNoRows, SqliteError(sqliteConstraintUnique), SqliteError(sqliteConstraintForeignKey),
     SqliteError(sqliteConstraintNotNull), SqliteError(275), SqliteError(1),
     RawErr("context canceled")}

\* raw failures handed to WrapDatabaseError
PqInputs ==
    {ErrNoRows, RawErr("context canceled"), PqError("40001", "")}
    \cup {PqError(c, "check_auth_method") :
             c \in {CodePostgresUniqueViolation, CodePostgresForeignKeyViolation,
                    CodePostgresCheckViolation, CodePostgresNotNullViolation}}

\* one call of every domain constructor
DomainInputs ==
    {NotFound("Workspace", "id"), NotFoundByField("User", "email", "a@b"),
     Conflict("User", "email", "a@b"), InvalidInput("name", "too short"),
     ValidationError("validation failed", [name |-> "required"]),
     Unauthorized("bad token"), Forbidden("workspace", "delete")}

\* statuses passed to WithHTTPStatus: the canonical status of a code and one
\* that is no code's canonical status
StatusInputs == {404, 418}

MetadataKeys == {"request_id"}

Objects == 1..Len(heap.errs)

InitErr ==
    /\ uow = NewUnitOfWork
    /\ db = [rows |-> {}, pending |-> {}]
    /\ phys = [begin |-> 0, commit |-> 0, rollback |-> 0]
    /\ log = <<>>
    /\ pc = "idle"
    /\ op = IdleOp
    /\ sched = Solo
    /\ heap = EmptyHeap

\* A constructor returned the value v in the first object. Values built by
\* separate constructor calls share no field and no map, so one is built and
\* every further object is a wrapper of an object allocated before.
Constructed(name, arg, v) ==
    Called(heap, Alloc(heap, v), name, Len(heap.errs) + 1, arg, Nil)

\* a fluent mutator left the value v in its receiver i
Mutated(name, i, arg, v) ==
    Called(heap, Mutate(heap, i, v), name, i, arg, Deref(heap, i))

\* New(message)
CallNew ==
    /\ heap.errs = <<>>
    /\ heap' = Constructed("New", "message", New("message", "New"))
    /\ UNCHANGED <<uow, db, phys, log, pc, op, sched>>

\* WithCode(code, message)
CallWithCode ==
    /\ heap.errs = <<>>
    /\ \E code \in Codes :
          heap' = Constructed("WithCode", code, WithCode(code, "message", "WithCode"))
    /\ UNCHANGED <<uow, db, phys, log, pc, op, sched>>

\* Wrap(err, message) of an opaque error
CallWrapOpaque ==
    /\ heap.errs = <<>>
    /\ heap' = Constructed("Wrap", RawErr("io"), Wrap(RawErr("io"), "context", "Wrap"))
    /\ UNCHANGED <<uow, db, phys, log, pc, op, sched>>

\* Wrap(err, message) of an *Error
CallWrap ==
    /\ Len(heap.errs) < MaxErrs
    /\ \E i \in Objects :
          LET cause == Deref(heap, i)
          IN heap' = Called(heap, WrapAlloc(heap, i, Wrap(cause, "context", "Wrap")),
                            "Wrap", Len(heap.errs) + 1, i, cause)
    /\ UNCHANGED <<uow, db, phys, log, pc, op, sched>>

\* the domain constructors
CallDomain ==
    /\ heap.errs = <<>>
    /\ \E v \in DomainInputs : heap' = Constructed("Domain", v.code, v)
    /\ UNCHANGED <<uow, db, phys, log, pc, op, sched>>

\* WrapSQLiteError(err, operation)
CallWrapSQLiteError ==
    /\ heap.errs = <<>>
    /\ \E err \in SqliteInputs, operation \in Operations :
          heap' = Constructed("WrapSQLiteError", [err |-> err, operation |-> operation],
                              WrapSQLiteError(err, operation))
    /\ UNCHANGED <<uow, db, phys, log, pc, op, sched>>

\* WrapDatabaseError(err, operation)
CallWrapDatabaseError ==
    /\ heap.errs = <<>>
    /\ \E err \in PqInputs, operation \in Operations :
          heap' = Constructed("WrapDatabaseError", [err |-> err, operation |-> operation],
                              WrapDatabaseError(err, operation))
    /\ UNCHANGED <<uow, db, phys, log, pc, op, sched>>

\* e.WithSeverity(severity)
CallErrorWithSeverity ==
    /\ heap.mutations < MaxMutations
    /\ \E i \in Objects, severity \in SeverityDebug..SeverityCritical :
          heap' = Mutated("Error.WithSeverity", i, severity,
                          Error_WithSeverity(Deref(heap, i), severity, "WithSeverity"))
    /\ UNCHANGED <<uow, db, phys, log, pc, op, sched>>

\* e.WithCode(code)
CallErrorWithCode ==
    /\ heap.mutations < MaxMutations
    /\ \E i \in Objects, code \in Codes :
          heap' = Mutated("Error.WithCode", i, code, Error_WithCode(Deref(heap, i), code))
    /\ UNCHANGED <<uow, db, phys, log, pc, op, sched>>

\* e.WithHTTPStatus(status)
CallErrorWithHTTPStatus ==
    /\ heap.mutations < MaxMutations
    /\ \E i \in Objects, status \in StatusInputs :
          heap' = Mutated("Error.WithHTTPStatus", i, status,
                          Error_WithHTTPStatus(Deref(heap, i), status))
    /\ UNCHANGED <<uow, db, phys, log, pc, op, sched>>

\* e.WithMetadata(key, value)
CallErrorWithMetadata ==
    /\ heap.mutations < MaxMutations
    /\ \E i \in Objects, key \in MetadataKeys :
          heap' = Mutated("Error.WithMetadata", i, key,
                          Error_WithMetadata(Deref(heap, i), key, "value"))
    /\ UNCHANGED <<uow, db, phys, log, pc, op, sched>>

NextErr ==
    \/ CallNew \/ CallWithCode \/ CallWrapOpaque \/ CallWrap \/ CallDomain
    \/ CallWrapSQLiteError \/ CallWrapDatabaseError
    \/ CallErrorWithSeverity \/ CallErrorWithCode \/ CallErrorWithHTTPStatus
    \/ CallErrorWithMetadata

SpecErr == InitErr /\ [][NextErr]_vars

(* ------------- the transport boundary: handlers and the error handler --- *)
\* a *fiber.Error made by fiber.NewError(code, message); its Error() text is
\* the message
FiberError(code, message) == [raw |-> message, fiberCode |-> code]

\* Severity.String
Severity_String(s) ==
    CASE s = SeverityDebug -> "DEBUG"
      [] s = SeverityInfo -> "INFO"
      [] s = SeverityWarning -> "WARNING"
      [] s = SeverityError -> "ERROR"
      [] s = SeverityCritical -> "CRITICAL"
      [] OTHER -> "UNKNOWN"

\* the levels of the slog calls in logError: slog.Debug, slog.Info, slog.Warn
\* and slog.Error log at LevelDebug, LevelInfo, LevelWarn and LevelError
slogLevel == [Debug |-> 0 - 4, Info |-> 0, Warn |-> 4, Error |-> 8]

\* (*Error).Error, and the Error() text of the other error values
RECURSIVE Error_Error(_)
Error_Error(e) ==
    IF IsAppError(e)
    THEN IF e.cause # Nil THEN e.message \o ": " \o Error_Error(e.cause) ELSE e.message
    ELSE e.raw

\* apperrors.ReturnUnauthorized(message)
ReturnUnauthorized(message) ==
    Expected(WithCode(CodeUnauthorized, message, "ReturnUnauthorized"), 401, "ReturnUnauthorized")

\* apperrors.ReturnForbidden(message)
ReturnForbidden(message) ==
    Expected(WithCode(CodeForbidden, message, "ReturnForbidden"), 403, "ReturnForbidden")

\* (*Error).LogValue: the attributes of the "error" group (the timestamp is
\* left out)
Error_LogValue(e) ==
    [message |-> e.message, code |-> e.code, severity |-> Severity_String(e.severity)]
    @@ (IF e.metadata # EmptyMetadata THEN [metadata |-> e.metadata] ELSE EmptyMetadata)
    @@ (IF e.cause # Nil THEN [cause |-> Error_Error(e.cause)] ELSE EmptyMetadata)
    @@ (IF Len(e.stack) > 0 THEN [stack_trace |-> e.stack] ELSE EmptyMetadata)

\* logError: the record handed to slog
logError(c, err) ==
    [level |-> CASE err.severity = SeverityDebug -> slogLevel.Debug
                 [] err.severity = SeverityInfo -> slogLevel.Info
                 [] err.severity = SeverityWarning -> slogLevel.Warn
                 [] OTHER -> slogLevel.Error,
     msg |-> IF err.severity = SeverityCritical THEN "CRITICAL request error"
             ELSE "request error",
     attrs |-> [error |-> Error_LogValue(err), path |-> c.path, method |-> c.method,
                status |-> err.httpStatus, severity |-> err.severity, code |-> err.code]
               @@ (IF c.requestID # "" THEN [request_id |-> c.requestID] ELSE EmptyMetadata)]

\* ErrorDetail as encoding/json writes it: "metadata" carries omitempty
ErrorDetail(code, message, metadata) ==
    [code |-> code, message |-> message]
    @@ (IF metadata # EmptyMetadata THEN [metadata |-> metadata] ELSE EmptyMetadata)

\* the function returned by ErrorHandler(), applied to (c, err)
ErrorHandler(c, err) ==
    LET appErr == IF IsAppError(err) THEN err
                  ELSE Error_WithSeverity(
                           Error_WithHTTPStatus(
                               Wrap(err, "internal server error", "ErrorHandler"), 500),
                           SeverityError, "ErrorHandler")
    IN [appErr |-> appErr,
        logged |-> logError(c, appErr),
        status |-> appErr.httpStatus,
        body |-> [error |-> ErrorDetail(appErr.code, Error_Error(appErr), appErr.metadata)]]

\* the :id path parameter: not a UUID, the nil UUID (parses, fails the
\* validator's "required"), and a version 4 UUID
NilUUID == "00000000-0000-0000-0000-000000000000"
PathIDs == {"not-a-uuid", NilUUID, "8c1f6e0e-3c1b-4b8e-9d57-2f1f0c6a7b11"}

\* uuid.Parse succeeds
IsUUID(id) == id # "not-a-uuid"

\* TemplateService.GetTemplate: the errors it can return (Nil: the template)
GetTemplate(claims, id) ==
    IF ~claims THEN {ReturnUnauthorized("missing JWT claims in context")}
    ELSE IF Validate(IF id = NilUUID THEN {"id"} ELSE {}) # Nil THEN {Validate({"id"})}
    ELSE {NotFound("Template", id), ReturnForbidden("template does not belong to your workspace"),
          Nil}
         \cup {WrapDatabaseError(f, "get_template") : f \in PqInputs \ {ErrNoRows}}

\* errors other handlers and middleware hand to the error handler: ErrorValues
\* of every code and severity, ErrorValues with a cause, classified storage
\* failures, framework errors and plain Go errors
HandlerErrors ==
    {Error_WithSeverity(WithCode(c, "m", "service"), s, "service") : c \in Codes, s \in SeverityDebug..SeverityCritical}
    \cup {Wrap(RawErr("dial tcp 10.0.0.5:5432: connection refused"), "failed to list", "service"),
          Wrap(WithCode(CodeDatabase, "query failed", "repository"), "failed to list", "service"),
          New("token signing failed", "jwt")}
    \cup {WrapSQLiteError(f, "create_user") : f \in SqliteInputs}
    \cup {FiberError(400, "Invalid request body"), FiberError(404, "Cannot GET /nope"),
          RawErr("unexpected EOF")}

InitHttp ==
    /\ uow = NewUnitOfWork
    /\ db = [rows |-> {}, pending |-> {}]
    /\ phys = [begin |-> 0, commit |-> 0, rollback |-> 0]
    /\ log = <<>>
    /\ pc = "http_request"
    /\ \E c \in {[path |-> "/api/v1/templates", method |-> "GET", requestID |-> r] :
                    r \in {"", "req-1"}} :
          op = [name |-> "request", c |-> c, claims |-> FALSE, id |-> "", err |-> Nil,
                response |-> Nil]
    /\ sched = Solo
    /\ heap = EmptyHeap

\* TemplateHandler.GetTemplate
TemplateHandlerGetTemplate ==
    /\ pc = "http_request"
    /\ \E id \in PathIDs, claims \in BOOLEAN :
          IF ~IsUUID(id)
          THEN /\ op' = [op EXCEPT !.name = "GetTemplate", !.id = id, !.claims = claims,
                                   !.err = FiberError(400, "Invalid template ID")]
               /\ pc' = "http_error"
          ELSE \E err \in GetTemplate(claims, id) :
                  /\ op' = [op EXCEPT !.name = "GetTemplate", !.id = id, !.claims = claims,
                                      !.err = err]
                  /\ pc' = IF err = Nil THEN "http_ok" ELSE "http_error"
    /\ UNCHANGED <<uow, db, phys, log, sched, heap>>

\* any other route whose handler returns an error
HandlerReturns ==
    /\ pc = "http_request"
    /\ \E err \in HandlerErrors :
          op' = [op EXCEPT !.name = "other", !.err = err]
    /\ pc' = "http_error"
    /\ UNCHANGED <<uow, db, phys, log, sched, heap>>

\* fiber invokes Config.ErrorHandler with the handler's error
CallErrorHandler ==
    /\ pc = "http_error"
    /\ op' = [op EXCEPT !.response = ErrorHandler(op.c, op.err)]
    /\ pc' = "http_responded"
    /\ UNCHANGED <<uow, db, phys, log, sched, heap>>

SpecHttp ==
    InitHttp /\ [][TemplateHandlerGetTemplate \/ HandlerReturns \/ CallErrorHandler]_vars

(* ------------------------- helpers over the history -------------------- *)
Last == log[Len(log)]

\* the physical operations currently outstanding on the storage client
Outstanding == phys.begin - (phys.commit + phys.rollback)

\* "no active transaction", Internal, 500
IsNoActiveTx(e) ==
    /\ IsAppError(e)
    /\ e.message = "no active transaction"
    /\ e.code = CodeInternal
    /\ e.httpStatus = 500

\* a Rollback called at nesting depth >= 1
IsRealRollback(e) == e.op = "Rollback" /\ e.pre.depth >= 1

(* ------------------------------ C1 ------------------------------------- *)
\* C1: after every call, also when the physical begin, commit or rollback
\* fails, depth >= 0 and the transaction handle is non-nil iff depth > 0.
C1_HandleIffDepth ==
    /\ uow.depth >= 0
    /\ (uow.tx # NoTx) <=> (uow.depth > 0)

\* a physical commit has failed and the coordinator has been begun again
C1_Witness ==
    /\ \E i \in 1..Len(log) : log[i].phys = "commit" /\ ~log[i].ok
    /\ \E i \in 1..Len(log) : log[i].phys = "rollback" /\ ~log[i].ok
    /\ uow.depth > 0

(* ------------------------------ C2 ------------------------------------- *)
\* the calls i .. i+2n-1 are n successful Begins on an idle coordinator
\* followed by n Commits
IsBeginCommitRun(i, n) ==
    /\ i + 2 * n - 1 <= Len(log)
    /\ log[i].pre.depth = 0
    /\ \A k \in 0..(n - 1) : log[i + k].op = "Begin" /\ log[i + k].err = Nil
    /\ \A k \in n..(2 * n - 1) : log[i + k].op = "Commit"

\* C2: n Begins on an idle coordinator followed by n Commits open one physical
\* transaction, at the first Begin, and perform one physical commit, at the
\* n-th Commit; the first n-1 Commits succeed without a physical operation;
\* afterwards depth is 0 and the handle is nil.
C2_OneCommitPerRun ==
    \A i \in 1..Len(log) : \A n \in 1..Len(log) :
        IsBeginCommitRun(i, n) =>
            /\ log[i].phys = "begin"
            /\ \A k \in 1..(2 * n - 2) : log[i + k].phys = "none" /\ log[i + k].err = Nil
            /\ log[i + 2 * n - 1].phys = "commit"
            /\ log[i + 2 * n - 1].post.depth = 0
            /\ log[i + 2 * n - 1].post.tx = NoTx

C2_Witness ==
    /\ Len(log) = 6
    /\ IsBeginCommitRun(1, 3)
    /\ phys.begin = 1 /\ phys.commit = 1

(* ------------------------------ C3 ------------------------------------- *)
\* C3: at most one physical transaction is outstanding, and a Begin at
\* depth > 0 performs no physical operation and only increments depth.
C3_AtMostOneOutstanding ==
    /\ Outstanding \in {0, 1}
    /\ \A i \in 1..Len(log) :
          (log[i].op = "Begin" /\ log[i].pre.depth > 0) =>
              /\ log[i].phys = "none"
              /\ log[i].post = [log[i].pre EXCEPT !.depth = log[i].pre.depth + 1]

C3_Witness == uow.depth >= 3 /\ Outstanding = 1

(* ------------------------------ C4 ------------------------------------- *)
\* C4: a Rollback at depth >= 1 performs one physical rollback, sets depth to 0
\* and clears the handle; every Commit after it and before a new Begin fails
\* with Internal "no active transaction" and performs no physical operation.
C4_RollbackIsGlobal ==
    \A i \in 1..Len(log) :
        IsRealRollback(log[i]) =>
            /\ log[i].phys = "rollback"
            /\ log[i].post.depth = 0
            /\ log[i].post.tx = NoTx
            /\ \A j \in (i + 1)..Len(log) :
                  (/\ log[j].op = "Commit"
                   /\ \A k \in (i + 1)..(j - 1) : log[k].op # "Begin")
                  => IsNoActiveTx(log[j].err) /\ log[j].phys = "none"

\* Begin; Begin; Rollback; Commit
C4_Witness ==
    \E i \in 1..Len(log) :
        /\ IsRealRollback(log[i]) /\ log[i].pre.depth >= 2
        /\ i < Len(log) /\ log[i + 1].op = "Commit"

(* ------------------------------ C5 ------------------------------------- *)
\* the call that opened the physical transaction that is open before call i
OpenerOf(i) == CHOOSE j \in 1..i : /\ log[j].phys = "begin" /\ log[j].ok
                                  /\ \A k \in (j + 1)..i : ~(log[k].phys = "begin" /\ log[k].ok)

CountOps(name, from, to) == Cardinality({k \in from..to : log[k].op = name /\ log[k].err = Nil})

\* the row written by call i
RowOf(i) == Row("workspaces", i, 0)

\* the first call after i that ends the physical transaction, 0 if none yet
EndOf(i) ==
    IF \E j \in (i + 1)..Len(log) : log[j].phys \in {"commit", "rollback"}
    THEN CHOOSE j \in (i + 1)..Len(log) :
             /\ log[j].phys \in {"commit", "rollback"}
             /\ \A k \in (i + 1)..(j - 1) : log[k].phys \notin {"commit", "rollback"}
    ELSE 0

\* C5: a physical commit happens only when every Begin since the physical
\* transaction was opened is matched by a Commit, with no Rollback in between;
\* a write issued inside the transaction is durable only after that physical
\* commit succeeded, so an inner Commit does not make it durable and a later
\* Rollback discards it.
C5_CommitOnlyWhenAllCommitted ==
    /\ \A i \in 1..Len(log) :
          log[i].phys = "commit" =>
              /\ \E j \in 1..i : log[j].phys = "begin" /\ log[j].ok
              /\ CountOps("Begin", OpenerOf(i), i) = CountOps("Commit", OpenerOf(i), i - 1) + 1
              /\ \A k \in OpenerOf(i)..i : log[k].op # "Rollback"
    /\ \A i \in 1..Len(log) :
          (log[i].op = "Exec" /\ log[i].pre.tx # NoTx) =>
              (RowOf(i) \in db.rows <=>
                  (EndOf(i) # 0 /\ log[EndOf(i)].phys = "commit" /\ log[EndOf(i)].ok))

\* a write inside the transaction, then the inner participant's successful
\* Commit, then the outer participant's Rollback
C5_Witness ==
    \E i \in 1..Len(log) : \E j \in (i + 1)..Len(log) : \E k \in (j + 1)..Len(log) :
        /\ log[i].op = "Exec" /\ log[i].pre.depth >= 2
        /\ log[j].op = "Commit" /\ log[j].pre.depth >= 2 /\ log[j].err = Nil
        /\ IsRealRollback(log[k])
        /\ RowOf(i) \notin db.rows

(* ------------------------------ C6 ------------------------------------- *)
\* C6: when InitializeSystem returns an error, from the nested user creation
\* or from any other step, the workspace row created by the outer participant
\* exists neither durably nor in a transaction left open.
C6_NoWorkspaceAfterFailure ==
    (pc = "returned" /\ op.err # Nil) =>
        Workspaces(db.rows \cup db.pending) = {}

\* the nested user creation failed with Conflict after the workspace was written
C6_Witness ==
    /\ pc = "returned"
    /\ op.at = "user_create"
    /\ op.err # Nil /\ op.err.code = CodeConflict
    /\ op.workspace # 0
    /\ \E i \in 1..Len(log) : IsRealRollback(log[i]) /\ log[i].pre.depth = 2

(* ------------------------------ C7 ------------------------------------- *)
\* C7 as stated: after a nested participant's Rollback the failed flag is set,
\* and a Commit that brings depth to 0 with the flag set rolls back physically.
C7_FailedAfterRollback ==
    /\ \A i \in 1..Len(log) :
          (IsRealRollback(log[i]) /\ log[i].pre.depth >= 2) => log[i].post.failed
    /\ \A i \in 1..Len(log) :
          (log[i].op = "Commit" /\ log[i].pre.depth = 1 /\ log[i].pre.failed) =>
              log[i].phys = "rollback"

\* C7 amended: Rollback clears the failed flag again before it returns and
\* leaves the coordinator idle; a Commit that brings depth to 0 finds the flag
\* clear, performs the physical commit and returns its result.
C7_RollbackLeavesIdle ==
    /\ \A i \in 1..Len(log) :
          IsRealRollback(log[i]) =>
              /\ ~log[i].post.failed
              /\ log[i].post.depth = 0
              /\ log[i].post.tx = NoTx
    /\ \A i \in 1..Len(log) :
          (log[i].op = "Commit" /\ log[i].pre.depth = 1) =>
              /\ ~log[i].pre.failed
              /\ log[i].phys = "commit"
              /\ (log[i].err = Nil <=> log[i].ok)

\* Begin; Begin; Rollback; Begin; Commit
C7_Witness ==
    \E i \in 1..Len(log) : \E j \in (i + 1)..Len(log) :
        /\ IsRealRollback(log[i]) /\ log[i].pre.depth >= 2
        /\ log[j].op = "Commit" /\ log[j].pre.depth = 1

(* ------------------------------ C8 ------------------------------------- *)
\* the step appends a call of the given name to the history
Calls(name) == Len(log') = Len(log) + 1 /\ log'[Len(log')].op = name

\* C8: Rollback at depth 0 returns nil, performs no physical rollback and
\* leaves depth, the failed flag, the handle and the storage untouched.
C8_RollbackAtZeroIsNoOp ==
    [][(Calls("Rollback") /\ uow.depth = 0) =>
           /\ log'[Len(log')].err = Nil
           /\ log'[Len(log')].phys = "none"
           /\ UNCHANGED <<uow, db, phys>>]_vars

\* the deferred Rollback after a successful outermost Commit
C8_Witness ==
    /\ Len(log) >= 2
    /\ Last.op = "Rollback" /\ Last.pre.depth = 0
    /\ log[Len(log) - 1].phys = "commit" /\ log[Len(log) - 1].ok

(* ------------------------------ C9 ------------------------------------- *)
\* C9: Commit at depth 0 fails with Internal / 500 "no active transaction",
\* performs no physical operation and leaves the coordinator untouched.
C9_CommitAtZeroFails ==
    [][(Calls("Commit") /\ uow.depth = 0) =>
           /\ IsNoActiveTx(log'[Len(log')].err)
           /\ log'[Len(log')].phys = "none"
           /\ UNCHANGED <<uow, db, phys>>]_vars

C9_Witness ==
    /\ Len(log) >= 1
    /\ Last.op = "Commit" /\ Last.pre.depth = 0 /\ Last.err # Nil

(* ------------------------------ C10 ------------------------------------ *)
\* C10: Begin fails only when the physical open fails; the error is
\* Internal / 500, depth stays 0 and the handle stays nil; a Begin at
\* depth > 0 never fails.
C10_BeginFailsOnlyOnOpen ==
    \A i \in 1..Len(log) :
        log[i].op = "Begin" =>
            /\ log[i].err # Nil =>
                  /\ log[i].phys = "begin" /\ ~log[i].ok
                  /\ log[i].pre.depth = 0
                  /\ log[i].err.code = CodeInternal
                  /\ log[i].err.httpStatus = 500
                  /\ log[i].post.depth = 0
                  /\ log[i].post.tx = NoTx
            /\ (log[i].phys = "begin" /\ ~log[i].ok) => log[i].err # Nil
            /\ log[i].pre.depth > 0 => log[i].err = Nil

\* a failed physical open, and a nested Begin
C10_Witness ==
    /\ \E i \in 1..Len(log) : log[i].op = "Begin" /\ log[i].err # Nil
    /\ \E i \in 1..Len(log) : log[i].op = "Begin" /\ log[i].pre.depth > 0

(* C11: whenever an inbound operation that uses a coordinator               *)
(* (InitializeSystem, CreateUser, CreateWorkspace, UpdateWorkspace,         *)
(* DeleteWorkspace) has returned to the transport layer, whatever its       *)
(* outcome, its coordinator has depth 0 and no handle, no physical          *)
(* transaction is open, and every physical transaction it opened was ended  *)
(* by exactly one physical commit or rollback.                              *)
C11_ReturnedMeansClosed ==
    pc = "returned" =>
        /\ uow.depth = 0
        /\ uow.tx = NoTx
        /\ db.pending = {}
        /\ phys.begin = phys.commit + phys.rollback
        /\ \A i \in 1..Len(log) :
              (log[i].phys = "begin" /\ log[i].ok) =>
                  Cardinality({j \in (i + 1)..Len(log) :
                                  /\ log[j].phys \in {"commit", "rollback"}
                                  /\ \A k \in (i + 1)..(j - 1) : log[k].phys = "none"}) = 1

\* CreateUser failed at the user insert, inside the participant's unfinished
\* Begin; the handler's deferred Rollback ended the transaction
C11_Witness ==
    /\ pc = "returned"
    /\ op.name = "CreateUser"
    /\ op.at = "user_create"
    /\ phys.begin = 1
    /\ phys.rollback = 1

\* the number of coordinators that hold a physical transaction
OpenTx == Cardinality(Holders) + (IF uow.tx # NoTx THEN 1 ELSE 0)

(* C12: on the single-connection pool, whatever the interleaving of inbound *)
(* operations that each use their own coordinator, at most one physical     *)
(* transaction is open process-wide, and every statement executed between   *)
(* the open and the end of a physical transaction runs inside it: no write  *)
(* of another operation lands in between.                                   *)
C12_WritesSerialized ==
    /\ OpenTx <= 1
    /\ Outstanding <= 1
    /\ \A i \in 1..Len(log) :
          (log[i].op = "Exec" /\ log[i].pre.tx = NoTx) =>
              \A b \in 1..(i - 1) :
                  (log[b].phys = "begin" /\ log[b].ok) =>
                      \E e \in (b + 1)..(i - 1) : log[e].phys \in {"commit", "rollback"}

\* one operation holds the transaction with a write pending while another
\* operation in flight waits before a step that needs a connection
C12_Witness ==
    /\ uow.tx = NoTx
    /\ pc \in ConnSteps
    /\ Holders # {}
    /\ db.pending # {}

(* ------------------- claims about the ErrorValue ----------------------- *)
\* the value the last call returned or left in its receiver
Returned == Deref(heap, heap.last.target)

LastCall(name) == heap.last.name = name

\* the innermost ErrorValue of a cause chain, as it was when it was wrapped
RECURSIVE Origin(_)
Origin(e) == IF IsAppError(e.cause) THEN Origin(e.cause) ELSE e

(* C13: every ErrorValue built by the constructors, the fluent mutators,    *)
(* the domain constructors and the two driver classifiers whose severity    *)
(* is Warning, Info or Debug has an empty stack.                            *)
C13_LowSeverityHasNoStack ==
    \A i \in Objects :
        heap.errs[i].severity \in {SeverityDebug, SeverityInfo, SeverityWarning}
            => heap.errs[i].stack = <<>>

(* C14: every ErrorValue built by the constructors, Wrap and the fluent     *)
(* mutators whose severity is Error or Critical has a non-empty stack.      *)
C14_HighSeverityHasStack ==
    \A i \in Objects :
        heap.errs[i].severity \in {SeverityError, SeverityCritical}
            => Len(heap.errs[i].stack) > 0

\* a wrapper of a Warning value without a stack was escalated to Error
C14_Witness ==
    /\ LastCall("Error.WithSeverity")
    /\ IsAppError(Returned.cause)
    /\ heap.last.before.severity = SeverityWarning
    /\ heap.last.before.stack = <<>>
    /\ Returned.severity = SeverityError
    /\ Len(Returned.stack) > 0

(* C15: Wrap of an ErrorValue returns a value with the cause's code,        *)
(* severity, httpStatus and stack and with a copy of its metadata; every    *)
(* wrapper, at any depth, carries the stack the innermost value had when it *)
(* was wrapped; and WithMetadata on one object leaves the metadata of every *)
(* other object unchanged.                                                  *)
C15_WrapInheritsAndCopies ==
    /\ (LastCall("Wrap") /\ IsAppError(heap.last.before)) =>
          /\ Returned.code = heap.last.before.code
          /\ Returned.severity = heap.last.before.severity
          /\ Returned.httpStatus = heap.last.before.httpStatus
          /\ Returned.stack = heap.last.before.stack
          /\ Returned.metadata = heap.last.before.metadata
    /\ \A i \in Objects :
          Len(Origin(heap.errs[i]).stack) > 0 => heap.errs[i].stack = Origin(heap.errs[i]).stack
    /\ LastCall("Error.WithMetadata") =>
          \A j \in Objects \ {heap.last.target} :
              Deref(heap, j).metadata = heap.last.maps[heap.errs[j].metadata]

\* metadata was added to a wrapper of a wrapper of a value with a stack
C15_Witness ==
    /\ LastCall("Error.WithMetadata")
    /\ IsAppError(Returned.cause)
    /\ IsAppError(Returned.cause.cause)
    /\ Len(Returned.stack) > 0
    /\ Returned.metadata # heap.last.before.metadata

(* C16: the WithCode mutator on a value whose httpStatus is the canonical   *)
(* status of its current code sets httpStatus to the new code's canonical   *)
(* status; on a value whose httpStatus was overridden it leaves httpStatus  *)
(* unchanged.                                                               *)
C16_WithCodeRefreshesStatus ==
    LastCall("Error.WithCode") =>
        IF heap.last.before.httpStatus = HTTPStatus(heap.last.before.code)
        THEN Returned.httpStatus = HTTPStatus(heap.last.arg)
        ELSE Returned.httpStatus = heap.last.before.httpStatus

(* C17: the constructor WithCode(code, message) returns, for every code, a  *)
(* value with the code's canonical status (InvalidInput/Validation 400,     *)
(* Unauthorized 401, Forbidden 403, NotFound 404, Conflict/Constraint 409,  *)
(* Internal/Database/Unknown 500) and with severity Warning for NotFound,   *)
(* Conflict, InvalidInput, Validation, Unauthorized and Forbidden and Error *)
(* for every other code.                                                    *)
C17_ConstructorDefaults ==
    LastCall("WithCode") =>
        LET code == heap.last.arg
        IN /\ Returned.code = code
           /\ Returned.httpStatus =
                 (CASE code = "INVALID_INPUT" -> 400
                    [] code = "VALIDATION_ERROR" -> 400
                    [] code = "UNAUTHORIZED" -> 401
                    [] code = "FORBIDDEN" -> 403
                    [] code = "NOT_FOUND" -> 404
                    [] code = "CONFLICT" -> 409
                    [] code = "CONSTRAINT_VIOLATION" -> 409
                    [] code = "INTERNAL" -> 500
                    [] code = "DATABASE_ERROR" -> 500
                    [] code = "UNKNOWN" -> 500)
           /\ Returned.severity =
                 (IF code \in {"NOT_FOUND", "CONFLICT", "INVALID_INPUT", "VALIDATION_ERROR",
                               "UNAUTHORIZED", "FORBIDDEN"}
                  THEN SeverityWarning ELSE SeverityError)

\* the constructor was called with the Constraint code
C17_Witness ==
    /\ LastCall("WithCode")
    /\ heap.last.arg = CodeConstraint
    /\ Returned.httpStatus = 409
    /\ Returned.severity = SeverityError

\* the raw failure is a unique-constraint violation of either backend
IsUniqueViolation(err) ==
    \/ IsSqliteError(err) /\ err.sqliteCode = 2067
    \/ IsPqError(err) /\ err.pgCode = "23505"

LastClassified == LastCall("WrapSQLiteError") \/ LastCall("WrapDatabaseError")

(* C18: for both backends and any operation label, classifying a raw        *)
(* unique-constraint violation yields code Conflict, httpStatus 409 and     *)
(* severity Warning, with the operation label and the backend's raw code    *)
(* in the metadata.                                                         *)
C18_UniqueIsConflict ==
    (LastClassified /\ IsUniqueViolation(heap.last.arg.err)) =>
        /\ Returned.code = CodeConflict
        /\ Returned.httpStatus = 409
        /\ Returned.severity = SeverityWarning
        /\ "operation" \in DOMAIN Returned.metadata
        /\ Returned.metadata["operation"] = heap.last.arg.operation
        /\ LastCall("WrapSQLiteError") =>
              /\ "sqlite_code" \in DOMAIN Returned.metadata
              /\ Returned.metadata["sqlite_code"] = 2067
        /\ LastCall("WrapDatabaseError") =>
              /\ "pg_code" \in DOMAIN Returned.metadata
              /\ Returned.metadata["pg_code"] = "23505"

\* the PostgreSQL classifier classified a unique violation
C18_Witness ==
    /\ LastCall("WrapDatabaseError")
    /\ IsUniqueViolation(heap.last.arg.err)
    /\ heap.last.arg.operation = "create_user"
    /\ Returned.code = CodeConflict

(* C19: for both backends and every operation label, classifying the        *)
(* "no rows" sentinel yields code NotFound, httpStatus 404 and severity     *)
(* Warning with a metadata map holding exactly the operation label.         *)
C19_NoRowsIsNotFound ==
    (LastClassified /\ heap.last.arg.err = ErrNoRows) =>
        /\ Returned.code = CodeNotFound
        /\ Returned.httpStatus = 404
        /\ Returned.severity = SeverityWarning
        /\ DOMAIN Returned.metadata = {"operation"}
        /\ Returned.metadata["operation"] = heap.last.arg.operation

\* the SQLite classifier classified the sentinel
C19_Witness ==
    /\ LastCall("WrapSQLiteError")
    /\ heap.last.arg.err = ErrNoRows
    /\ heap.last.arg.operation = "get_workspace"
    /\ Returned.code = CodeNotFound

\* the abstract kind of a raw constraint violation of either backend
ViolationKind(err) ==
    CASE IsSqliteError(err) /\ err.sqliteCode = 787 -> "foreign_key"
      [] IsSqliteError(err) /\ err.sqliteCode = 1299 -> "not_null"
      [] IsSqliteError(err) /\ err.sqliteCode = 275 -> "check"
      [] IsPqError(err) /\ err.pgCode = "23503" -> "foreign_key"
      [] IsPqError(err) /\ err.pgCode = "23502" -> "not_null"
      [] IsPqError(err) /\ err.pgCode = "23514" -> "check"
      [] OTHER -> "other"

(* C20: both classifiers return the same (code, httpStatus, severity) for   *)
(* each kind of constraint violation: foreign key and not-null give         *)
(* InvalidInput/400/Warning, check gives Validation/400/Warning.            *)
C20_SharedConstraintContract ==
    (LastClassified /\ ViolationKind(heap.last.arg.err) # "other") =>
        /\ Returned.code = (IF ViolationKind(heap.last.arg.err) = "check"
                            THEN CodeValidation ELSE CodeInvalidInput)
        /\ Returned.httpStatus = 400
        /\ Returned.severity = SeverityWarning

(* C21: a raw storage failure that is neither the no-rows sentinel nor a    *)
(* categorized constraint violation, be it a driver error with another code *)
(* or a value of another shape, is classified with code Database,           *)
(* httpStatus 500 and severity Error, with a captured stack and the         *)
(* operation label in its metadata.                                         *)
C21_OtherFailuresAreDatabase ==
    (/\ LastClassified
     /\ heap.last.arg.err # ErrNoRows
     /\ ~IsUniqueViolation(heap.last.arg.err)
     /\ ViolationKind(heap.last.arg.err) = "other") =>
        /\ Returned.code = CodeDatabase
        /\ Returned.httpStatus = 500
        /\ Returned.severity = SeverityError
        /\ Len(Returned.stack) > 0
        /\ "operation" \in DOMAIN Returned.metadata
        /\ Returned.metadata["operation"] = heap.last.arg.operation

(* ------------------- claims about the transport boundary ---------------- *)
Responded == pc = "http_responded"

(* C22: an ErrorValue reaching the error handler is used as it is; any other *)
(* error, a framework error included, is wrapped as an internal failure with *)
(* httpStatus 500 and severity Error; the response status is the resulting   *)
(* ErrorValue's httpStatus and the body is the envelope made of its code,    *)
(* message and metadata.                                                     *)
C22_TranslatedAsIs ==
    Responded =>
        LET r == op.response
        IN /\ IsAppError(op.err) => r.appErr = op.err
           /\ ~IsAppError(op.err) =>
                 r.appErr.httpStatus = 500 /\ r.appErr.severity = SeverityError
           /\ r.status = r.appErr.httpStatus
           /\ r.body = [error |-> [code |-> r.appErr.code, message |-> r.appErr.message,
                                   metadata |-> r.appErr.metadata]]

\* causes and stacks a failure could have had instead
OtherCauses == {Nil, RawErr("pq: password authentication failed for user app")}
OtherStacks == {<<>>, <<"repository", "service">>}

(* C23: the response body of an Error or Critical failure does not depend on *)
(* its cause or its stack: the same failure with another cause chain and     *)
(* another stack gets the same body.                                         *)
C23_BodyIndependentOfCause ==
    (Responded /\ op.response.appErr.severity \in {SeverityError, SeverityCritical}) =>
        \A cause \in OtherCauses, stack \in OtherStacks :
            ErrorHandler(op.c, [op.response.appErr EXCEPT !.cause = cause, !.stack = stack]).body
                = op.response.body

(* C24: a request whose identifier is malformed (not a UUID, or rejected by  *)
(* the validator) is answered with status 400 and an error body whose        *)
(* metadata field map has the offending field's key.                         *)
C24_MalformedIdIs400 ==
    (/\ Responded
     /\ op.name = "GetTemplate"
     /\ op.claims
     /\ (~IsUUID(op.id) \/ op.id = NilUUID)) =>
        /\ op.response.status = 400
        /\ "metadata" \in DOMAIN op.response.body.error
        /\ "fields" \in DOMAIN op.response.body.error.metadata
        /\ "id" \in DOMAIN op.response.body.error.metadata["fields"]

(* C26: the level the error handler logs at is strictly increasing in the    *)
(* severity order: an error is logged strictly above the level the same      *)
(* error would get with any lower severity, Critical above Error included.   *)
C26_LevelStrictlyIncreasing ==
    Responded =>
        \A s \in SeverityDebug..SeverityCritical :
            s < op.response.appErr.severity =>
                logError(op.c, [op.response.appErr EXCEPT !.severity = s]).level
                    < op.response.logged.level

(* ------------------------------ C25 ------------------------------------ *)
\* the error of the pre-flight check
AlreadyInitialized(err) ==
    /\ IsAppError(err)
    /\ err.code = CodeConflict
    /\ err.httpStatus = 409
    /\ err.message = "System already initialized"

\* InitializeSystem has returned on a request that passed validation
ReturnedValid == pc = "returned" /\ op.name = "InitializeSystem" /\ op.at # "admin_validate"

\* no Begin was called and no row was written or is pending
NothingDone ==
    /\ \A i \in 1..Len(log) : log[i].op # "Begin"
    /\ phys.begin = 0
    /\ db = [rows |-> {ExistingUser}, pending |-> {}]

(* C25 as stated: with a user already stored, every InitializeSystem call    *)
(* with a valid request returns Conflict/409, calls no Begin and writes no   *)
(* workspace or user row.                                                   *)
C25_LaterInitIsConflict ==
    (ExistingUser \in db.rows /\ ReturnedValid) =>
        AlreadyInitialized(op.err) /\ NothingDone

(* C25 amended: with a user already stored, InitializeSystem never calls     *)
(* Begin and writes no row, and on a valid request it returns Conflict/409   *)
(* unless the count query itself failed, in which case it returns that       *)
(* classified storage failure.                                               *)
C25_LaterInitWritesNothing ==
    ExistingUser \in db.rows =>
        /\ NothingDone
        /\ pc \in {"admin_validate", "admin_count", "returned"}
        /\ ReturnedValid =>
              \/ AlreadyInitialized(op.err)
              \/ op.err \in {WrapSQLiteError(f, "count_users") : f \in DriverFailures}

C25_Witness ==
    ExistingUser \in db.rows /\ ReturnedValid /\ AlreadyInitialized(op.err)

(* ------------------------------ C27 ------------------------------------ *)
(* C27: the failed flag is clear in every state between two calls, no Commit *)
(* starts with the flag set, and no Commit takes the branch that rolls back  *)
(* instead of committing.                                                    *)
C27_FailedNeverObserved ==
    /\ ~uow.failed
    /\ \A i \in 1..Len(log) :
          /\ ~log[i].pre.failed
          /\ ~log[i].post.failed
          /\ log[i].op = "Commit" => log[i].phys \in {"none", "commit"}

\* Begin; Begin; Rollback; Begin; Commit: a Commit reaches depth 0 after an
\* earlier Rollback from a nested level and commits physically
C27_Witness ==
    /\ ~uow.failed
    /\ \E i \in 1..Len(log) : \E j \in (i + 1)..Len(log) :
          /\ IsRealRollback(log[i]) /\ log[i].pre.depth >= 2
          /\ log[j].op = "Commit" /\ log[j].phys = "commit"

(* ------------------------------ C28 ------------------------------------ *)
\* the write of call j was issued inside the physical transaction that the
\* Rollback of call i ended
WrittenBefore(j, i) ==
    /\ j < i
    /\ log[j].op = "Exec"
    /\ log[j].pre.tx = Tx
    /\ \A k \in j..(i - 1) : log[k].phys \notin {"commit", "rollback"}

\* the write of call j was issued after the Rollback of call i by a nested
\* participant, before any new Begin
WrittenAfter(j, i) ==
    /\ j > i
    /\ log[j].op = "Exec"
    /\ log[i].pre.depth >= 2
    /\ \A k \in (i + 1)..(j - 1) : log[k].op # "Begin"

(* C28: the writes of one logical operation are all-or-nothing: once a       *)
(* participant has called Rollback, no write of the operation is persisted,  *)
(* neither one issued before that Rollback nor one issued after it and       *)
(* before a new Begin.                                                       *)
C28_AllOrNothing ==
    \A i \in 1..Len(log) :
        IsRealRollback(log[i]) =>
            \A j \in 1..Len(log) :
                (WrittenBefore(j, i) \/ WrittenAfter(j, i)) => RowOf(j) \notin db.rows

(* ------------------------------ C29 ------------------------------------ *)
(* C29: whatever the interleaving of concurrent InitializeSystem calls on    *)
(* separate coordinators against an uninitialized system, at most one of     *)
(* them commits a workspace and an admin user, and the others leave no rows. *)
C29_OneInitWins ==
    /\ Cardinality(Users(db.rows)) <= 1
    /\ Cardinality(Workspaces(db.rows)) <= 1

(* ------------------------------ C30 ------------------------------------ *)
\* the running operation needs a connection of the pool while its own
\* coordinator holds the open physical transaction
SelfWait == pc \in ConnSteps /\ NeedsPool /\ uow.tx # NoTx

\* every operation has returned
AllReturned == pc = "returned" /\ DOMAIN sched.saved = {}

(* C30: on the single-connection pool no operation issues a statement on the *)
(* pool, or opens a transaction, while its own coordinator holds the open    *)
(* physical transaction, so none waits for the connection it holds itself;   *)
(* under fair scheduling every operation in flight eventually returns.       *)
C30_NoSelfWaitAndAllReturn == []~SelfWait /\ <>AllReturned

\* one operation runs a statement inside its transaction while another
\* operation in flight waits for the connection
C30_Witness ==
    /\ uow.tx # NoTx
    /\ pc \in ConnSteps \ BeginSteps
    /\ \E q \in DOMAIN sched.saved :
          sched.saved[q].pc \in ConnSteps /\ sched.saved[q].uow.tx = NoTx

====
